---- MODULE Spec2Model ----
(***************************************************************************)
(* finalhandler: the final responder of an HTTP middleware chain.          *)
(*                                                                         *)
(* Two responder variants are modelled side by side:                       *)
(*   "env"  src/index.js          (options.env, options.onerror)           *)
(*   "msg"  src/unnamed/part_000  (options.message, options.stacktrace,    *)
(*                                 options.onerror)                        *)
(*                                                                         *)
(* One responder is built for one request/response pair and is invoked     *)
(* once.  JavaScript runs each callback to completion, so the returned     *)
(* callback is one action; the request's stream events, the deferred       *)
(* onerror task and a commit of the response by another party are the      *)
(* other actions.                                                          *)
(*                                                                         *)
(* Strings are sequences of tokens.  Text that comes from the request, the *)
(* error or the status table is one token per character; the fixed parts   *)
(* of the HTML document are multi-character tokens.                        *)
(***************************************************************************)
EXTENDS Integers, Sequences, FiniteSets, TLC

\* ------------------------------------------------------------------ bounds

\* 'end' events the request stream may emit (a repeated end is allowed).
MaxEndEmits == 2

\* ----------------------------------------------------------------- strings

\* The JavaScript value undefined where a string is expected.
UNDEFINED == <<"<undefined>">>

\* JavaScript truthiness of a string-or-undefined value.
Truthy(s) == s # UNDEFINED /\ s # <<>>

\* String conversion, as done by '' + s and by s + '\n'.
ToStr(s) ==
  IF s = UNDEFINED THEN <<"u", "n", "d", "e", "f", "i", "n", "e", "d">> ELSE s

\* a || b on string-or-undefined values.
OrElse(a, b) == IF Truthy(a) THEN a ELSE b

\* The one non-ASCII character of the model (two bytes in UTF-8).
EAcute == "U+00E9"

\* Bytes of one token in UTF-8.
Utf8Len(tok) == IF tok = EAcute THEN 2 ELSE Len(tok)

\* Characters of one token.
CharLen(tok) == IF tok = EAcute THEN 1 ELSE Len(tok)

RECURSIVE SumLen(_, _)
SumLen(s, k) ==
  IF s = <<>> THEN 0
  ELSE (IF k = "bytes" THEN Utf8Len(Head(s)) ELSE CharLen(Head(s)))
       + SumLen(Tail(s), k)

\* new Buffer(s, 'utf8').length
ByteLength(s) == SumLen(s, "bytes")

\* s.length
CharLength(s) == SumLen(s, "chars")

\* First index of tok in s, 0 when absent (JavaScript: -1).
RECURSIVE IndexFrom(_, _, _)
IndexFrom(s, tok, i) ==
  IF i > Len(s) THEN 0
  ELSE IF s[i] = tok THEN i
  ELSE IndexFrom(s, tok, i + 1)

IndexOf(s, tok) == IndexFrom(s, tok, 1)

\* ------------------------------------------------------------ collaborators

\* http.STATUS_CODES[status]: the reason phrase, undefined for an unknown code.
STATUS_CODES(status) ==
  CASE status = 200 -> <<"O", "K">>
    [] status = 400 -> <<"B", "a", "d", " ", "R", "e", "q", "u", "e", "s", "t">>
    [] status = 404 -> <<"N", "o", "t", " ", "F", "o", "u", "n", "d">>
    [] status = 500 -> <<"I", "n", "t", "e", "r", "n", "a", "l", " ", "S", "e",
                         "r", "v", "e", "r", " ", "E", "r", "r", "o", "r">>
    [] status = 503 -> <<"S", "e", "r", "v", "i", "c", "e", " ", "U", "n", "a",
                         "v", "a", "i", "l", "a", "b", "l", "e">>
    [] OTHER -> UNDEFINED

\* escape-html on one character.
EscapeChar(c) ==
  CASE c = "&" -> <<"&", "a", "m", "p", ";">>
    [] c = "<" -> <<"&", "l", "t", ";">>
    [] c = ">" -> <<"&", "g", "t", ";">>
    [] c = "\"" -> <<"&", "q", "u", "o", "t", ";">>
    [] c = "'" -> <<"&", "#", "3", "9", ";">>
    [] OTHER -> <<c>>

\* escapeHtml(string): converts its argument to a string, then escapes it.
RECURSIVE EscapeSeq(_)
EscapeSeq(s) ==
  IF s = <<>> THEN <<>> ELSE EscapeChar(Head(s)) \o EscapeSeq(Tail(s))

escapeHtml(s) == EscapeSeq(ToStr(s))

\* .replace(/\n/g, '<br>')
RECURSIVE ReplaceNewlines(_)
ReplaceNewlines(s) ==
  IF s = <<>> THEN <<>>
  ELSE IF Head(s) = "\n"
    THEN <<"<", "b", "r", ">">> \o ReplaceNewlines(Tail(s))
    ELSE <<Head(s)>> \o ReplaceNewlines(Tail(s))

\* .replace(/  /g, ' &nbsp;'): non-overlapping pairs of spaces, left to right.
RECURSIVE ReplaceDoubleSpaces(_)
ReplaceDoubleSpaces(s) ==
  IF Len(s) < 2 THEN s
  ELSE IF s[1] = " " /\ s[2] = " "
    THEN <<" ", "&", "n", "b", "s", "p", ";">>
         \o ReplaceDoubleSpaces(Tail(Tail(s)))
    ELSE <<Head(s)>> \o ReplaceDoubleSpaces(Tail(s))

\* String(err) and err.toString() of an Error object: Error.prototype.toString.
ErrToString(e) ==
  LET name == IF e.name = UNDEFINED
                THEN <<"E", "r", "r", "o", "r">> ELSE e.name
      msg == IF e.message = UNDEFINED THEN <<>> ELSE e.message
  IN IF name = <<>> THEN msg
     ELSE IF msg = <<>> THEN name
     ELSE name \o <<":", " ">> \o msg

\* ------------------------------------------------------------ body builders

HtmlType == <<"text/html; charset=utf-8">>
TextType == <<"text/plain; charset=utf-8">>

\* constructHtmlBody(status, message)
constructHtmlBody(status, message) ==
  LET msg == ReplaceDoubleSpaces(ReplaceNewlines(escapeHtml(message)))
      html == <<"<!doctype html>", "\n",
                "<html lang=en>", "\n",
                "<head>", "\n",
                "<meta charset=utf-8>", "\n",
                "<title>">> \o escapeHtml(STATUS_CODES(status))
              \o <<"</title>", "\n",
                   "</head>", "\n",
                   "<body>", "\n">>
              \o msg \o <<"\n", "</body>", "\n">>
  IN [bytes |-> html, type |-> HtmlType, length |-> ByteLength(html)]

\* constructTextBody(status, message)
constructTextBody(status, message) ==
  LET msg == ToStr(message) \o <<"\n">>
  IN [bytes |-> msg, type |-> TextType, length |-> ByteLength(msg)]

\* ------------------------------------------------------- message derivation

\* Mutant: the built-in derivation discloses err.message for every status.
getDefaultErrorMessage_always(e) == e.message

\* getDefaultErrorMessage(err)
getDefaultErrorMessage(e) ==
  IF e.status >= 400 /\ e.status < 600 THEN e.message ELSE UNDEFINED

\* message(err, status): the configured derivation function applied.  message
\* is "off" (false), "default" (getDefaultErrorMessage) or "custom" (a user
\* function whose result for this call is custom).
CallMessage(message, e, custom) ==
  IF message = "default" THEN getDefaultErrorMessage(e) ELSE custom

\* getErrorMessage(err, status, message)
getErrorMessage(e, status, message, custom) ==
  LET msg == IF message # "off" THEN CallMessage(message, e, custom)
             ELSE UNDEFINED
  IN OrElse(msg, STATUS_CODES(status))

\* getErrorStack(err, status, message)
getErrorStack(e, status, message, custom) ==
  LET stack == OrElse(e.stack, <<>>)
  IN IF message # "off"
       THEN LET index == IndexOf(stack, "\n")
                msg == OrElse(CallMessage(message, e, custom),
                              OrElse(e.message, ErrToString(e)))
                rest == IF index # 0
                          THEN SubSeq(stack, index, Len(stack)) ELSE stack
            IN IF Truthy(e.name)
                 THEN e.name \o <<":", " ">> \o msg \o rest
                 ELSE msg \o rest
       ELSE IF ~Truthy(stack) THEN ErrToString(e)
       ELSE stack

\* ------------------------------------------------------------------- state

VARIABLES
  construction, \* finalhandler(req, res, options): the call and its outcome
  opts,         \* the options the responder was built with
  req,          \* the request: method, urls, negotiated type, stream state
  res,          \* the response: status, headers, commit marker, end calls
  socket,       \* req.socket
  endListeners, \* the write closures registered by req.once('end', write)
  deferred,     \* tasks posted with defer (setImmediate), oldest first
  inv,          \* the invocation of the returned callback
  writeLog,     \* one entry per start of the write sequence
  onerrorRuns,  \* one entry per run of the onerror callback
  dataSeen,     \* the request emitted 'data' since the invocation
  endEmits      \* 'end' events emitted so far

vars == <<construction, opts, req, res, socket, endListeners, deferred, inv, writeLog,
          onerrorRuns, dataSeen, endEmits>>

\* ------------------------------------------------------------------ inputs

GET == <<"G", "E", "T">>
HEAD == <<"H", "E", "A", "D">>

Methods == {GET, HEAD}

\* req.url is always present; req.originalUrl is set by some frameworks only.
Urls == {<<"/", "u">>}
OriginalUrls == {UNDEFINED, <<"/", EAcute>>}

\* Results of accepts(req).types('html', 'text'); "none" is the value false.
NegotiationResults == {"html", "text", "none"}

\* res.statusCode before the invocation; 0 is an unset (falsy) status.
PreStatuses == {0, 200, 404}

\* err.status; 0 is an absent (falsy) status.
ErrStatuses == {0, 200, 399, 400, 599, 600}

\* The detail an error carries: nothing, a message, or message, stack, name.
ErrDetails ==
  {[message |-> UNDEFINED, stack |-> UNDEFINED, name |-> UNDEFINED],
   [message |-> <<"a", "<", "b">>, stack |-> UNDEFINED, name |-> UNDEFINED],
   [message |-> <<"a", "<", "b">>,
    stack |-> <<"E", ":", " ", "a", "<", "b", "\n", " ", " ", "a", "t">>,
    name |-> <<"E">>]}

\* A falsy err argument.
NoErr == <<>>

Errors ==
  {NoErr} \cup
  {<<[status |-> s, message |-> d.message, stack |-> d.stack,
      name |-> d.name]>> : s \in ErrStatuses, d \in ErrDetails}

\* What a user-supplied message function does on one call: it returns a
\* falsy value, returns a string, or throws.
THROWS == <<"<throws>">>
CustomResults == {UNDEFINED, <<"n", "o">>, THROWS}

Options ==
  {[variant |-> "env", env |-> e, message |-> "off", stacktrace |-> FALSE,
    onerror |-> o] : e \in {"production", "development"}, o \in BOOLEAN}
  \cup
  {[variant |-> "msg", env |-> "unused", message |-> m, stacktrace |-> t,
    onerror |-> o] :
     m \in {"off", "default", "custom"}, t \in BOOLEAN, o \in BOOLEAN}

\* ------------------------------------------------------------ construction

\* Values of options.message, by kind.
RawMessages ==
  {"undefined", "true", "false", "function", "null", "zero", "emptyString",
   "string", "number", "object"}

\* JavaScript falsiness of a value of that kind.
Falsy(raw) ==
  raw \in {"undefined", "false", "null", "zero", "emptyString"}

\* typeof of a value of that kind.
TypeOf(raw) ==
  CASE raw \in {"true", "false"} -> "boolean"
    [] raw = "function" -> "function"
    [] raw = "undefined" -> "undefined"
    [] raw \in {"zero", "number"} -> "number"
    [] raw \in {"emptyString", "string"} -> "string"
    [] OTHER -> "object"

\* Mutant: the option is taken as given, without the || false default.
MessageOption_noDefault(raw) ==
  IF raw = "true" THEN "function" ELSE raw

\* get message option: options.message === true ? getDefaultErrorMessage
\* : options.message || false, as the kind of the value message then holds.
MessageOption(raw) ==
  IF raw = "true" THEN "function"
  ELSE IF Falsy(raw) THEN "false"
  ELSE raw

\* typeof message !== 'boolean' && typeof message !== 'function'
MessageOptionInvalid(raw) ==
  TypeOf(MessageOption(raw)) \notin {"boolean", "function"}

\* The derivation the responder closes over: off, the built-in one, or the
\* user's function.
MessageMode(raw) ==
  IF raw = "true" THEN "default"
  ELSE IF MessageOption(raw) = "function" THEN "custom"
  ELSE "off"

\* The option value a built responder's derivation stands for.
RawOf(mode) ==
  CASE mode = "default" -> "true"
    [] mode = "custom" -> "function"
    [] OTHER -> "undefined"

NoHeaders == [xcto |-> <<>>, ctype |-> <<>>, clen |-> -1]

NoBody == [bytes |-> <<>>, type |-> <<>>, length |-> 0]

Idle ==
  [phase |-> "idle", err |-> NoErr, custom |-> UNDEFINED, preStatus |-> 0,
   preHeader |-> FALSE, preReadable |-> FALSE, status |-> 0, msg |-> <<>>,
   body |-> NoBody, path |-> "none", scheduled |-> 0]

\* The request, the response and the event loop when the responder is built.
InitPair ==
  /\ req \in {r \in [method : Methods, url : Urls,
                      originalUrl : OriginalUrls,
                      accept : NegotiationResults, readable : BOOLEAN,
                      resumed : {0}, piped : BOOLEAN, steps : {<<>>},
                      armed : {FALSE}, delivered : {FALSE}] :
                 \* a consumer is piped from the request while it is readable
                 r.piped = r.readable}
  /\ res \in [statusCode : PreStatuses, _header : {FALSE},
              headers : {NoHeaders}, setLog : {<<>>}, endCalls : {0},
              payload : {<<>>}, sentStatus : {0}, committedBy : {"nobody"}]
  /\ socket = [destroyed |-> 0]
  /\ endListeners = <<>>
  /\ deferred = <<>>
  /\ inv = Idle
  /\ writeLog = <<>>
  /\ onerrorRuns = <<>>
  /\ dataSeen = FALSE
  /\ endEmits = 0

\* A responder built from valid options.
Init ==
  /\ opts \in Options
  /\ construction = [state |-> "built", message |-> RawOf(opts.message)]
  /\ InitPair

\* -------------------------------------------------------------- resolution

\* default status code to 500
DefaultStatus(pre) == IF pre = 0 \/ pre < 400 THEN 500 ELSE pre

\* respect err.status, src/index.js
RespectErrStatusEnv(status, e) == IF e.status # 0 THEN e.status ELSE status

\* Mutant: the lower end of the range is excluded.
RespectErrStatusMsg_gt(status, e) ==
  IF e.status > 400 /\ e.status < 600 THEN e.status ELSE status

\* respect err.status, src/unnamed/part_000
RespectErrStatusMsg(status, e) ==
  IF e.status >= 400 /\ e.status < 600 THEN e.status ELSE status

\* The status the callback resolves for err, from the response's status pre.
ResolveStatus(variant, pre, err) ==
  IF err = NoErr THEN 404
  ELSE IF variant = "env" THEN RespectErrStatusEnv(DefaultStatus(pre), err[1])
  ELSE RespectErrStatusMsg(DefaultStatus(pre), err[1])

\* Mutant: req.originalUrl is ignored.
NotFoundMessage_urlOnly(r) ==
  <<"C", "a", "n", "n", "o", "t", " ">> \o r.method \o <<" ">> \o r.url

\* 'Cannot ' + req.method + ' ' + (req.originalUrl || req.url)
NotFoundMessage(r) ==
  <<"C", "a", "n", "n", "o", "t", " ">> \o r.method \o <<" ">>
  \o OrElse(r.originalUrl, r.url)

\* Mutant: the stack is the message in every environment.
EnvMessage_alwaysStack(env, e, status) == OrElse(e.stack, ErrToString(e))

\* production gets a basic error message, src/index.js
EnvMessage(env, e, status) ==
  IF env = "production" THEN STATUS_CODES(status)
  ELSE OrElse(e.stack, ErrToString(e))

\* build a stack trace or normal message, src/unnamed/part_000
MsgMessage(o, e, status, custom) ==
  IF o.stacktrace THEN getErrorStack(e, status, o.message, custom)
  ELSE getErrorMessage(e, status, o.message, custom)

\* The message the callback resolves.
ResolveMessage(o, r, err, status, custom) ==
  IF err = NoErr THEN NotFoundMessage(r)
  ELSE IF o.variant = "env" THEN EnvMessage(o.env, err[1], status)
  ELSE MsgMessage(o, err[1], status, custom)

\* Mutant: a failure of the derivation function is swallowed.
MessageThrows_swallowed(o, err, custom) == FALSE

\* The derivation function is called, and throws, during message resolution.
MessageThrows(o, err, custom) ==
  o.variant = "msg" /\ err # NoErr /\ o.message = "custom" /\ custom = THROWS

\* Mutant: only "text" selects the text builder; no body otherwise.
constructBody_noneRejected(type, status, msg) ==
  IF type = "html" THEN constructHtmlBody(status, msg)
  ELSE IF type = "text" THEN constructTextBody(status, msg)
  ELSE [bytes |-> <<>>, type |-> <<>>, length |-> 0]

\* switch (type): the body builder for a negotiation result.
constructBody(type, status, msg) ==
  IF type = "html" THEN constructHtmlBody(status, msg)
  ELSE constructTextBody(status, msg)

\* ------------------------------------------------------------ transmission

\* Mutant: the task is never posted.
defer_dropped(queue, task) == queue

\* defer(fn, err, req, res): post a task to run after the current callback.
defer(queue, task) == Append(queue, task)

\* unpipe(stream): detach every consumer from the request.
unpipe(r) == [r EXCEPT !.piped = FALSE, !.steps = Append(@, "unpipe")]

\* req.once('end', write), as a step on the request stream.
onceEnd(r) == [r EXCEPT !.steps = Append(@, "once")]

\* req.resume(), with ls the 'end' listeners registered at that moment.
resume(r, ls) ==
  [r EXCEPT !.resumed = @ + 1, !.steps = Append(@, "resume"),
            !.armed = ls # <<>>]

\* Mutant: Content-Length counts characters, not bytes.
write_charLength(r, method, status, body) ==
  IF r._header
    THEN [r EXCEPT !.statusCode = status,
                   !.setLog = Append(@, "statusCode")]
  ELSE [r EXCEPT
          !.statusCode = status,
          !.headers = [xcto |-> <<"nosniff">>, ctype |-> body.type,
                       clen |-> SumLen(body.bytes, "chars")],
          !.setLog = @ \o <<"statusCode", "X-Content-Type-Options",
                            "Content-Type", "Content-Length", "end">>,
          !.endCalls = @ + 1,
          !.payload = IF method = <<"H", "E", "A", "D">>
                        THEN <<>> ELSE body.bytes,
          !.sentStatus = status,
          !.committedBy = "responder",
          !._header = TRUE]

\* Mutant: the response is ended without the sniffing header.
write_endBeforeNosniff(r, method, status, body) ==
  IF r._header
    THEN [r EXCEPT !.statusCode = status,
                   !.setLog = Append(@, "statusCode")]
  ELSE [r EXCEPT
          !.statusCode = status,
          !.headers = [xcto |-> <<>>, ctype |-> body.type,
                       clen |-> body.length],
          !.setLog = @ \o <<"statusCode", "Content-Type", "Content-Length",
                            "end">>,
          !.endCalls = @ + 1,
          !.payload = IF method = <<"H", "E", "A", "D">>
                        THEN <<>> ELSE body.bytes,
          !.sentStatus = status,
          !.committedBy = "responder",
          !._header = TRUE]

\* write(): the write sequence of send, on response r.  res.setHeader throws
\* once the headers are sent, which ends the sequence after the status was
\* assigned.
write(r, method, status, body) ==
  IF r._header
    THEN [r EXCEPT !.statusCode = status,
                   !.setLog = Append(@, "statusCode")]
  ELSE [r EXCEPT
          !.statusCode = status,
          !.headers = [xcto |-> <<"nosniff">>, ctype |-> body.type,
                       clen |-> body.length],
          !.setLog = @ \o <<"statusCode", "X-Content-Type-Options",
                            "Content-Type", "Content-Length", "end">>,
          !.endCalls = @ + 1,
          !.payload = IF method = HEAD THEN <<>> ELSE body.bytes,
          !.sentStatus = status,
          !.committedBy = "responder",
          !._header = TRUE]

\* Mutant: the return after the immediate write is missing.
send_noReturn(r, status, body) ==
  /\ res' = IF ~req.readable
              THEN write(r, req.method, status, body) ELSE r
  /\ writeLog' = IF ~req.readable
                   THEN Append(writeLog, [sent |-> r._header, at |-> "call"])
                   ELSE writeLog
  /\ endListeners' =
       Append(endListeners, [status |-> status, body |-> body])
  /\ req' = resume(onceEnd(unpipe(req)), endListeners')

\* Mutant: the request is resumed before the end listener is registered.
send_resumeFirst(r, status, body) ==
  IF ~req.readable
    THEN /\ res' = write(r, req.method, status, body)
         /\ writeLog' = Append(writeLog, [sent |-> r._header, at |-> "call"])
         /\ UNCHANGED <<req, endListeners>>
    ELSE /\ res' = r
         /\ endListeners' =
              Append(endListeners, [status |-> status, body |-> body])
         /\ req' = onceEnd(resume(unpipe(req), endListeners))
         /\ UNCHANGED writeLog

\* send(req, res, status, body), on response r (the response as the callback
\* left it before the call).
send(r, status, body) ==
  IF ~req.readable
    THEN /\ res' = write(r, req.method, status, body)
         /\ writeLog' = Append(writeLog, [sent |-> r._header, at |-> "call"])
         /\ UNCHANGED <<req, endListeners>>
    ELSE /\ res' = r
         /\ endListeners' =
              Append(endListeners, [status |-> status, body |-> body])
         /\ req' = resume(onceEnd(unpipe(req)), endListeners')
         /\ UNCHANGED writeLog

\* Whether res.statusCode is assigned while the status is resolved.
AssignsWhileResolving(variant) == variant = "env"

\* The callback returned by finalhandler(req, res, options), invoked with err.
\* custom is what a user-supplied message function does on this call.
finalhandler(err, custom) ==
  /\ construction.state = "built"
  /\ inv.phase = "idle"
  /\ LET status == ResolveStatus(opts.variant, res.statusCode, err)
         msg == ResolveMessage(opts, req, err, status, custom)
         sched == err # NoErr /\ opts.onerror
         r == IF AssignsWhileResolving(opts.variant)
                THEN [res EXCEPT !.statusCode = status] ELSE res
         body == constructBody(req.accept, status, msg)
         base == [Idle EXCEPT !.err = err, !.custom = custom,
                              !.preStatus = res.statusCode,
                              !.preHeader = res._header,
                              !.preReadable = req.readable,
                              !.status = status]
     IN IF MessageThrows(opts, err, custom)
          THEN /\ inv' = [base EXCEPT !.phase = "threw"]
               /\ UNCHANGED <<construction, opts, req, res, socket, endListeners, deferred,
                              writeLog, onerrorRuns, dataSeen, endEmits>>
          ELSE /\ deferred' =
                    IF sched THEN defer(deferred, [err |-> err]) ELSE deferred
               /\ IF res._header
                    THEN /\ socket' = [socket EXCEPT !.destroyed = @ + 1]
                         /\ res' = r
                         /\ inv' = [base EXCEPT
                                      !.phase = "returned", !.msg = msg,
                                      !.path = "destroy",
                                      !.scheduled = IF sched THEN 1 ELSE 0]
                         /\ UNCHANGED <<req, endListeners, writeLog>>
                    ELSE /\ send(r, status, body)
                         /\ inv' = [base EXCEPT
                                      !.phase = "returned", !.msg = msg,
                                      !.body = body,
                                      !.path = IF req.readable
                                                 THEN "deferred"
                                                 ELSE "immediate",
                                      !.scheduled = IF sched THEN 1 ELSE 0]
                         /\ UNCHANGED socket
               /\ UNCHANGED <<construction, opts, onerrorRuns, dataSeen, endEmits>>

\* The inputs of one invocation.  The behaviour of the user's message
\* function matters only when it is configured and an error is passed.
Invoke ==
  \E err \in Errors :
    \E custom \in (IF opts.message = "custom" /\ err # NoErr
                     THEN CustomResults ELSE {UNDEFINED}) :
      finalhandler(err, custom)

\* ------------------------------------------------------------- environment

\* Mutant: the listener was registered with req.on and stays.
on(ls) == ls

\* Listeners left on 'end' after an emit that ran ls: req.once removes them.
once(ls) == <<>>

\* The write closures of listeners run in order on response r.
RECURSIVE RunListeners(_, _, _)
RunListeners(ls, r, method) ==
  IF ls = <<>> THEN r
  ELSE RunListeners(Tail(ls),
                    write(r, method, Head(ls).status, Head(ls).body), method)

RECURSIVE LogListeners(_, _, _)
LogListeners(ls, r, method) ==
  IF ls = <<>> THEN <<>>
  ELSE <<[sent |-> r._header, at |-> "end"]>>
       \o LogListeners(Tail(ls),
                       write(r, method, Head(ls).status, Head(ls).body),
                       method)

\* The request stream emits 'data'.  The responder registers no data listener;
\* a consumer still piped from the request receives the data.
\* What the stream did before the invocation is summed up in req.readable of
\* the initial state; its events are followed from the invocation on.  Any
\* number of data events may occur: after the first the state repeats.
ReqData ==
  /\ inv.phase # "idle"
  /\ req.readable
  /\ dataSeen' = TRUE
  /\ req' = [req EXCEPT !.delivered = @ \/ req.piped]
  /\ UNCHANGED <<construction, opts, res, socket, endListeners, deferred, inv,
                 writeLog, onerrorRuns, endEmits>>

\* The request stream emits 'end': the stream is no longer readable and the
\* once-listeners run and are removed.
ReqEnd ==
  /\ inv.phase # "idle"
  /\ endEmits < MaxEndEmits
  /\ endEmits' = endEmits + 1
  /\ req' = [req EXCEPT !.readable = FALSE]
  /\ res' = RunListeners(endListeners, res, req.method)
  /\ writeLog' = writeLog \o LogListeners(endListeners, res, req.method)
  /\ endListeners' = once(endListeners)
  /\ UNCHANGED <<construction, opts, socket, deferred, inv, onerrorRuns, dataSeen>>

\* The oldest deferred task runs: onerror(err, req, res).  The callback is
\* user code: it returns, throws, or touches the response's status.
OnerrorRun ==
  /\ deferred # <<>>
  /\ \E outcome \in {"returns", "throws", "touches"} :
       /\ onerrorRuns' =
            Append(onerrorRuns, [err |-> Head(deferred).err,
                                 outcome |-> outcome])
       /\ res' = IF outcome = "touches" /\ ~res._header
                   THEN [res EXCEPT !.statusCode = 200] ELSE res
  /\ deferred' = Tail(deferred)
  /\ UNCHANGED <<construction, opts, req, socket, endListeners, inv, writeLog, dataSeen,
                 endEmits>>

\* Another party (an earlier handler) commits the response: headers are sent.
ResCommitted ==
  /\ ~res._header
  /\ res' = [res EXCEPT !._header = TRUE, !.sentStatus = res.statusCode,
                         !.committedBy = "other"]
  /\ UNCHANGED <<construction, opts, req, socket, endListeners, deferred, inv, writeLog,
                 onerrorRuns, dataSeen, endEmits>>

Next ==
  \/ Invoke
  \/ ReqData
  \/ ReqEnd
  \/ OnerrorRun
  \/ ResCommitted

Spec == Init /\ [][Next]_vars

\* ----------------------------------------------- construction, then the call

\* finalhandler(req, res, options) is about to be called with any value of
\* options.message; the message mode is not resolved yet.
InitConstruct ==
  /\ construction \in [state : {"unbuilt"}, message : RawMessages]
  /\ opts \in {[o EXCEPT !.message = "unset"] : o \in Options}
  /\ InitPair

\* finalhandler(req, res, options): src/unnamed/part_000 validates the
\* message option and throws a TypeError; src/index.js reads no such option.
Construct ==
  /\ construction.state = "unbuilt"
  /\ IF opts.variant = "msg" /\ MessageOptionInvalid(construction.message)
       THEN /\ construction' = [construction EXCEPT !.state = "failed"]
            /\ UNCHANGED opts
       ELSE /\ construction' = [construction EXCEPT !.state = "built"]
            /\ opts' = [opts EXCEPT
                          !.message = IF opts.variant = "msg"
                                        THEN MessageMode(construction.message)
                                        ELSE "off"]
  /\ UNCHANGED <<req, res, socket, endListeners, deferred, inv, writeLog,
                 onerrorRuns, dataSeen, endEmits>>

NextConstruct ==
  \/ Construct
  \/ Invoke

SpecConstruct == InitConstruct /\ [][NextConstruct]_vars

\* ------------------------------------------------------------------ claims

\* The invocation returned, was made with an error and with headers unsent.
ErrorInvocation ==
  inv.phase = "returned" /\ inv.err # NoErr /\ ~inv.preHeader

\* The responder's write sequence ended the response.
Written == res.committedBy = "responder"

InErrRange(n) == n >= 400 /\ n < 600

\* C1: for an error whose err.status is absent or outside [400,600), with
\* headers unsent, the written status is 500, unless the response's status
\* before the invocation was already >= 400, which is then the one written;
\* in both responder variants.
C1_DefaultStatusBothVariants ==
  (ErrorInvocation /\ Written /\ ~InErrRange(inv.err[1].status))
    => res.sentStatus = IF inv.preStatus >= 400 THEN inv.preStatus ELSE 500

\* C2: for an error whose err.status is an integer in [400,599], with headers
\* unsent, the written status equals err.status, whatever the response's
\* status was before the invocation.
C2_ErrStatusWins ==
  (ErrorInvocation /\ InErrRange(inv.err[1].status))
    => /\ inv.status = inv.err[1].status
       /\ Written => res.sentStatus = inv.err[1].status

C2_Witness ==
  /\ ErrorInvocation /\ Written
  /\ inv.err[1].status = 599
  /\ inv.preStatus = 404
  /\ res.sentStatus = 599

\* C3: when the headers are already sent at the invocation, the responder
\* leaves the status code unchanged, sets no header, never calls res.end (at
\* once or on the request's end event), does not resume the request, and
\* destroys the socket exactly once.
C3_NoWriteWhenHeadersSent ==
  (inv.phase = "returned" /\ inv.preHeader)
    => /\ res.statusCode = inv.preStatus
       /\ res.headers = NoHeaders
       /\ res.endCalls = 0
       /\ writeLog = <<>>
       /\ endListeners = <<>>
       /\ req.resumed = 0
       /\ socket.destroyed = 1

\* C4: when the request is readable at the invocation (headers unsent), no
\* header is set and res.end is not called before the request's end event;
\* the write sequence runs after the end event, once, whatever further data
\* and end events occur.
C4_DeferredWriteOnce ==
  inv.path = "deferred"
    => /\ inv.preReadable /\ ~inv.preHeader
       /\ endEmits = 0
            => /\ writeLog = <<>>
               /\ res.headers = NoHeaders
               /\ res.endCalls = 0
               /\ Len(endListeners) = 1
       /\ endEmits > 0
            => /\ Len(writeLog) = 1
               /\ writeLog[1].at = "end"
               /\ endListeners = <<>>
               /\ res.endCalls <= 1

C4_Witness ==
  /\ inv.path = "deferred"
  /\ endEmits = 2
  /\ dataSeen
  /\ Len(writeLog) = 1
  /\ res.endCalls = 1

C6_NotFound ==
  (inv.phase = "returned" /\ inv.err = NoErr /\ ~inv.preHeader)
    => /\ inv.status = 404
       /\ Written => res.sentStatus = 404
       /\ inv.msg = <<"C", "a", "n", "n", "o", "t", " ">> \o req.method
                    \o <<" ">>
                    \o (IF req.originalUrl # UNDEFINED
                          THEN req.originalUrl ELSE req.url)
       /\ inv.scheduled = 0
       /\ deferred = <<>>
       /\ onerrorRuns = <<>>

C6_Witness ==
  /\ inv.phase = "returned" /\ inv.err = NoErr /\ ~inv.preHeader
  /\ inv.preStatus = 200
  /\ req.originalUrl # UNDEFINED
  /\ opts.onerror
  /\ Written
  /\ res.sentStatus = 404

C8_HeadNoPayload ==
  (inv.phase = "returned" /\ Written /\ req.method = HEAD)
    => /\ res.payload = <<>>
       /\ res.endCalls = 1
       /\ res.headers.clen =
            ByteLength(IF req.accept = "html"
                         THEN constructHtmlBody(inv.status, inv.msg).bytes
                         ELSE constructTextBody(inv.status, inv.msg).bytes)
       /\ res.headers.clen > 0

C8_Witness ==
  /\ inv.phase = "returned" /\ Written /\ req.method = HEAD
  /\ req.accept = "html"
  /\ inv.err = NoErr
  /\ req.originalUrl # UNDEFINED
  /\ res.payload = <<>>
  /\ res.headers.clen > CharLength(inv.body.bytes)

\* C9: negotiation never rejects: the HTML builder is used exactly when the
\* negotiator's result is "html" and the text builder for every other result;
\* every invocation that passes the headers-sent check builds a body, and the
\* Content-Type written is the type of the builder chosen.
C9_NegotiationNeverRejects ==
  (inv.phase = "returned" /\ ~inv.preHeader)
    => /\ req.accept = "html"
            => inv.body = constructHtmlBody(inv.status, inv.msg)
       /\ req.accept # "html"
            => inv.body = constructTextBody(inv.status, inv.msg)
       /\ inv.body.bytes # <<>>
       /\ Written
            => res.headers.ctype =
                 IF req.accept = "html" THEN HtmlType ELSE TextType

C9_Witness ==
  /\ inv.phase = "returned" /\ ~inv.preHeader
  /\ req.accept = "none"
  /\ Written
  /\ res.headers.ctype = TextType

C12_UnpipedAfterInvocation ==
  inv.phase = "returned" => ~req.piped

\* C17: on the deferred path the consumers are detached, then the one-shot
\* end listener is registered, then the stream is resumed; the stream is
\* never resumed before the listener is registered, so the end event is not
\* missed, and no consumer attached before the invocation receives data
\* produced by the resume.
C17_DeferredOrder ==
  /\ inv.path = "deferred"
       => /\ req.steps = <<"unpipe", "once", "resume">>
          /\ req.armed
          /\ req.resumed = 1
          /\ ~req.piped
          /\ ~req.delivered
          /\ endEmits > 0 => writeLog # <<>>
  /\ req.resumed > 0 => inv.path = "deferred"

C17_Witness ==
  /\ inv.path = "deferred"
  /\ inv.preReadable
  /\ dataSeen
  /\ ~req.delivered
  /\ endEmits = 1
  /\ Len(writeLog) = 1

\* C13: every response the responder ends carries, set before res.end is
\* called and in this order after the status code, X-Content-Type-Options =
\* nosniff, Content-Type = the built body's type and Content-Length = the built
\* body's byte length; res.end is never called with one of them unset.
C13_HeadersBeforeEnd ==
  /\ res.endCalls > 0
       => /\ Written
          /\ res.headers.xcto = <<"nosniff">>
          /\ res.headers.ctype = inv.body.type
          /\ res.headers.clen = ByteLength(inv.body.bytes)
          /\ res.setLog = <<"statusCode", "X-Content-Type-Options",
                            "Content-Type", "Content-Length", "end">>
  /\ \A i \in DOMAIN res.setLog :
       res.setLog[i] = "end" => res.endCalls > 0

C13_Witness ==
  /\ res.endCalls = 1
  /\ inv.path = "deferred"
  /\ req.accept = "text"
  /\ res.headers.ctype = TextType
  /\ res.headers.clen > CharLength(inv.body.bytes)

\* C14: in message/stacktrace mode without stacktrace, the message for an
\* error is the configured derivation function's result when that is truthy
\* and otherwise the reason phrase of the resolved status; the built-in
\* derivation (message: true) yields err.message only when err.status is in
\* [400,600); with message off the message is always the reason phrase.
C14_MessageDerivation ==
  (ErrorInvocation /\ opts.variant = "msg" /\ ~opts.stacktrace)
    => LET e == inv.err[1]
           phrase == STATUS_CODES(inv.status)
       IN inv.msg =
            CASE opts.message = "off" -> phrase
              [] opts.message = "default" ->
                   IF InErrRange(e.status) /\ Truthy(e.message)
                     THEN e.message ELSE phrase
              [] opts.message = "custom" ->
                   IF Truthy(inv.custom) THEN inv.custom ELSE phrase

C14_Witness ==
  /\ ErrorInvocation /\ opts.variant = "msg" /\ ~opts.stacktrace
  /\ opts.message = "default"
  /\ inv.err[1].status = 200
  /\ Truthy(inv.err[1].message)
  /\ inv.preStatus = 404
  /\ inv.status = 404
  /\ inv.msg = STATUS_CODES(404)
  /\ Written

\* The responder is built in a generic mode: default options in
\* src/unnamed/part_000, or env = 'production' in src/index.js.
GenericMode ==
  \/ opts.variant = "msg" /\ opts.message = "off" /\ ~opts.stacktrace
  \/ opts.variant = "env" /\ opts.env = "production"

\* C15: in the generic modes error detail is not disclosed: the written
\* status, headers and body are those determined by the resolved status and
\* the request (method, negotiation result) alone, so two errors resolving to
\* the same status give identical output whatever their message, stack and
\* name.
C15_NoDisclosure ==
  (ErrorInvocation /\ GenericMode)
    => LET generic ==
             constructBody(req.accept, inv.status, STATUS_CODES(inv.status))
       IN /\ inv.msg = STATUS_CODES(inv.status)
          /\ inv.body = generic
          /\ Written
               => /\ res.sentStatus = inv.status
                  /\ res.headers = [xcto |-> <<"nosniff">>,
                                    ctype |-> generic.type,
                                    clen |-> generic.length]
                  /\ res.payload =
                       IF req.method = HEAD THEN <<>> ELSE generic.bytes

C15_Witness ==
  /\ ErrorInvocation /\ GenericMode /\ Written
  /\ opts.variant = "env"
  /\ Truthy(inv.err[1].stack)
  /\ Truthy(inv.err[1].name)
  /\ inv.status = 500
  /\ req.method = GET
  /\ res.payload = constructBody(req.accept, 500, STATUS_CODES(500)).bytes

\* C16: every invocation made while the headers are not sent finalizes the
\* response (res.end called by the responder): within the invocation when the
\* request is not readable, and otherwise once the resumed request stream has
\* emitted end.  Stated on finite runs: an invocation that returned on a
\* non-readable request has ended the response, and so has one on a readable
\* request as soon as end has been emitted.
C16_FinalizedOnceEndEmitted ==
  (inv.phase = "returned" /\ ~inv.preHeader)
    => /\ ~inv.preReadable => res.endCalls = 1
       /\ (inv.preReadable /\ endEmits > 0) => res.endCalls = 1

\* C18: the write sequence never starts on a response whose headers have
\* already been sent, whether it runs within the invocation or from the
\* request's end event.
C18_WriteOnlyOnUnsentHeaders ==
  \A i \in DOMAIN writeLog : ~writeLog[i].sent

\* C19: the status resolved by an invocation, passed to the body builder and
\* written as the response status, is an integer in [100,599], in both
\* responder variants.
C19_ResolvedStatusInRange ==
  (inv.phase = "returned" /\ ~inv.preHeader)
    => /\ inv.status \in 100..599
       /\ Written => res.sentStatus \in 100..599

====
